---- MODULE Spec2Model ----
(***************************************************************************)
(* Model of lib_stripe (src/src/lib.rs): get_customer, create_customer and *)
(* create_payment_sheet, each an async function that issues remote calls   *)
(* to the payment processor and suspends at every .await.                  *)
(*                                                                         *)
(* Strings the code inspects (customer ids, currency codes, account ids,   *)
(* the search URL) are sequences of one-character strings; strings the     *)
(* code only carries (secrets, error descriptions) are TLA+ strings.       *)
(***************************************************************************)
EXTENDS Integers, Sequences, FiniteSets, TLC

\* Number of invocations made; all of them may be in flight together.
NumInv == 2

Inv == 1..NumInv

VARIABLES
    pc,         \* pc[i]: where invocation i is suspended
    op,         \* op[i]: which public function invocation i runs
    dto,        \* dto[i]: the argument of invocation i
    local,      \* local[i]: the locals of invocation i that live across an .await
    result,     \* result[i]: the value invocation i returned
    calls,      \* calls[i]: the remote requests invocation i has issued, in order
    resps,      \* resps[i]: the processor's answers invocation i has received, in order
    seen,       \* seen[i]: the customer directory as it was when i's search was served
    customers,  \* the processor's customer directory, in creation order
    minted      \* the ephemeral keys the processor holds, each with the invocation
                \* whose request minted it

vars == <<pc, op, dto, local, result, calls, resps, seen, customers, minted>>

-----------------------------------------------------------------------------
(* Option and Result values *)

None == [some |-> FALSE]
Some(v) == [some |-> TRUE, val |-> v]

Ok(v) == [ok |-> TRUE, val |-> v]
Err(e) == [ok |-> FALSE, err |-> e]

NoValue == [none |-> TRUE]

-----------------------------------------------------------------------------
(* Strings as character sequences *)

StartsWith(s, p) == Len(s) >= Len(p) /\ SubSeq(s, 1, Len(p)) = p

UpperChars == <<"A", "D", "E", "R", "S", "U", "Z">>
LowerChars == <<"a", "d", "e", "r", "s", "u", "z">>

\* char::to_lowercase on the letters the model uses
CharToLowercase(c) ==
    IF \E k \in 1..Len(UpperChars) : UpperChars[k] = c
    THEN LowerChars[CHOOSE k \in 1..Len(UpperChars) : UpperChars[k] = c]
    ELSE c

\* str::to_lowercase
ToLowercase(s) == [k \in 1..Len(s) |-> CharToLowercase(s[k])]

-----------------------------------------------------------------------------
(* Values the callers and the processor draw from *)

CusPrefix == <<"c", "u", "s", "_">>
DigitChars == <<"1", "2", "3", "4", "5", "6", "7", "8", "9">>

\* the id the processor assigns to the n-th customer it creates
FreshCustomerId(n) == CusPrefix \o <<DigitChars[n]>>

CustomerIdStrings == { CusPrefix \o <<"1">>, <<"b", "a", "d">> }
\* the customer ids a payment-intent response may name
ResponseCustomerIds == { CusPrefix \o <<"1">>, CusPrefix \o <<"9">> }

CurrencyCodes == { <<"u", "s", "d">>, <<"U", "S", "D">>, <<"U", "s", "d">>,
                   <<"z", "z", "z">> }

Amounts == { 50, 2000 }
DeliveryAddresses == { None, Some("address_1") }

AccountIds == { <<"a", "1">>, <<"a", "2">> }

\* a StripeError, the processor's own error value, with its description
StripeError(description) == [StripeError |-> description]

\* StripeError::to_string
StripeErrorToString(e) == e.StripeError

StripeErrors == { StripeError("stripe_error") }
SecretOptions == { None, Some(""), Some("secret_1") }

\* the requests callers make: every customer id with every currency code, for
\* one amount and no delivery address; and one request for another amount
\* that carries a delivery address
CreatePaymentIntentDtos ==
    [amount : {2000}, stripe_customer_id : CustomerIdStrings,
     delivery_address : {None}, currency : CurrencyCodes]
    \cup
    [amount : Amounts \ {2000}, stripe_customer_id : {CusPrefix \o <<"1">>},
     delivery_address : DeliveryAddresses \ {None}, currency : {<<"u", "s", "d">>}]

CreateCustomerDtos == [id : AccountIds]

-----------------------------------------------------------------------------
(* The error type and the library parsers create_payment_sheet uses *)

\* StripePaymentError::from_general
FromGeneral(msg) == [kind |-> "StripePaymentError", message |-> msg]

\* CustomerId::from_str: accepts a string iff it starts with "cus_"
CustomerIdFromStrUnchecked(s) == Ok([CustomerId |-> s])

CustomerIdFromStr(s) ==
    IF StartsWith(s, CusPrefix)
    THEN Ok([CustomerId |-> s])
    ELSE Err("invalid CustomerId")

\* CustomerId::to_string
CustomerIdToString(x) == x.CustomerId

\* stripe::Currency::from_str: matches the lowercase ISO code
CurrencyFromStr(s) ==
    CASE s = <<"u", "s", "d">> -> Ok("Currency::USD")
      [] s = <<"e", "u", "r">> -> Ok("Currency::EUR")
      [] s = <<"a", "e", "d">> -> Ok("Currency::AED")
      [] OTHER -> Err("invalid Currency")

\* the currency field of CreatePaymentIntent
CurrencyFieldNoLowercase(d) == CurrencyFromStr(d.currency)

CurrencyField(d) == CurrencyFromStr(ToLowercase(d.currency))

-----------------------------------------------------------------------------
(* What a code segment does when it stops: it returns, or it issues one     *)
(* remote request and suspends at the .await.                               *)

NoLocal == [none |-> TRUE]

Return(r) == [pc |-> "done", result |-> r, send |-> <<>>, local |-> NoLocal]
Suspend(at, request, l) == [pc |-> at, result |-> NoValue, send |-> <<request>>, local |-> l]

-----------------------------------------------------------------------------
(* create_payment_sheet *)

CreateEphemeralKeyUnscoped(customer_id) ==
    [api |-> "EphemeralKey::create", customer |-> None, issuing_card |-> None]

CreateEphemeralKey(customer_id) ==
    [api |-> "EphemeralKey::create", customer |-> Some(customer_id), issuing_card |-> None]

CreatePaymentIntentNoShipping(d, currency, customer_id) ==
    [api |-> "PaymentIntent::create",
     amount |-> d.amount,
     currency |-> currency,
     customer |-> Some(customer_id),
     payment_method_types |-> Some(<<"card">>),
     shipping |-> None]

CreatePaymentIntent(d, currency, customer_id) ==
    [api |-> "PaymentIntent::create",
     amount |-> d.amount,
     currency |-> currency,
     customer |-> Some(customer_id),
     payment_method_types |-> Some(<<"card">>),
     shipping |-> d.delivery_address]

\* lines 98-108: parse the customer id, then issue the ephemeral-key create
SheetStart(d) ==
    LET stripe_customer_id == CustomerIdFromStr(d.stripe_customer_id) IN
    IF ~stripe_customer_id.ok
    THEN Return(Err(FromGeneral(stripe_customer_id.err)))
    ELSE Suspend("await_eph", CreateEphemeralKey(stripe_customer_id.val),
                 [stripe_customer_id |-> stripe_customer_id.val])

\* lines 108-109: .await.map_err(StripePaymentError::from_general)
EphemeralKeyAwaitedIgnoringError(resp) ==
    IF resp.ok THEN resp ELSE Ok([secret |-> Some("")])

EphemeralKeyAwaited(resp) ==
    IF resp.ok THEN resp ELSE Err(FromGeneral(StripeErrorToString(resp.err)))

\* lines 110-114: ephemeral_key.secret.ok_or(..)
EphemeralKeySecretOrDefault(ephemeral_key) ==
    IF ephemeral_key.secret.some THEN Ok(ephemeral_key.secret.val) ELSE Ok("")

EphemeralKeySecret(ephemeral_key) ==
    IF ephemeral_key.secret.some
    THEN Ok(ephemeral_key.secret.val)
    ELSE Err(FromGeneral("no ephemeral_key_secret"))

\* lines 108-150, waiting for a secret that the answer did not carry
SheetAfterEphemeralKeyWaitingForSecret(d, l, resp) ==
    LET ephemeral_key == EphemeralKeyAwaited(resp) IN
    IF ~ephemeral_key.ok THEN Return(ephemeral_key)
    ELSE LET ephemeral_key_secret == EphemeralKeySecret(ephemeral_key.val) IN
         IF ~ephemeral_key_secret.ok
         THEN [pc |-> "await_secret", result |-> NoValue, send |-> <<>>, local |-> l]
         ELSE LET currency == CurrencyField(d) IN
              IF ~currency.ok THEN Return(Err(FromGeneral(currency.err)))
              ELSE Suspend("await_pi",
                           CreatePaymentIntent(d, currency.val, l.stripe_customer_id),
                           [ephemeral_key_secret |-> ephemeral_key_secret.val])

\* lines 108-150, with the ephemeral-key create issued again when it fails
SheetAfterEphemeralKeyRetrying(d, l, resp) ==
    IF ~resp.ok
    THEN Suspend("await_eph", CreateEphemeralKey(l.stripe_customer_id), l)
    ELSE LET ephemeral_key_secret == EphemeralKeySecret(resp.val) IN
         IF ~ephemeral_key_secret.ok THEN Return(ephemeral_key_secret)
         ELSE LET currency == CurrencyField(d) IN
              IF ~currency.ok THEN Return(Err(FromGeneral(currency.err)))
              ELSE Suspend("await_pi",
                           CreatePaymentIntent(d, currency.val, l.stripe_customer_id),
                           [ephemeral_key_secret |-> ephemeral_key_secret.val])

\* lines 108-150: the ephemeral key arrives; take its secret, parse the
\* currency, then issue the payment-intent create
SheetAfterEphemeralKey(d, l, resp) ==
    LET ephemeral_key == EphemeralKeyAwaited(resp) IN
    IF ~ephemeral_key.ok THEN Return(ephemeral_key)
    ELSE LET ephemeral_key_secret == EphemeralKeySecret(ephemeral_key.val) IN
         IF ~ephemeral_key_secret.ok THEN Return(ephemeral_key_secret)
         ELSE LET currency == CurrencyField(d) IN
              IF ~currency.ok THEN Return(Err(FromGeneral(currency.err)))
              ELSE Suspend("await_pi",
                           CreatePaymentIntent(d, currency.val, l.stripe_customer_id),
                           [ephemeral_key_secret |-> ephemeral_key_secret.val])

\* lines 151-152: .await.map_err(StripePaymentError::from_general)
PaymentIntentAwaitedFixedMessage(resp) ==
    IF resp.ok THEN resp ELSE Err(FromGeneral("payment intent failed"))

PaymentIntentAwaited(resp) ==
    IF resp.ok THEN resp ELSE Err(FromGeneral(StripeErrorToString(resp.err)))

\* lines 154-159: payment_intent.client_secret.ok_or(..)
PaymentClientSecretOrDefault(payment_intent) ==
    IF payment_intent.client_secret.some
    THEN Ok(payment_intent.client_secret.val)
    ELSE Ok("")

PaymentClientSecret(payment_intent) ==
    IF payment_intent.client_secret.some
    THEN Ok(payment_intent.client_secret.val)
    ELSE Err(FromGeneral("no payment_client_secret"))

\* PaymentIntentId::to_string
PaymentIntentIdToString(x) == x.PaymentIntentId

\* lines 161-166: the PaymentIntentDto returned on success
PaymentIntentDtoFromResponse(d, payment_intent, ephemeral_key_secret, payment_client_secret) ==
    [id |-> PaymentIntentIdToString(payment_intent.id),
     ephemeral_secret |-> ephemeral_key_secret,
     client_secret |-> payment_client_secret,
     stripe_customer_id |-> CustomerIdToString(payment_intent.customer.val)]

PaymentIntentDto(d, payment_intent, ephemeral_key_secret, payment_client_secret) ==
    [id |-> PaymentIntentIdToString(payment_intent.id),
     ephemeral_secret |-> ephemeral_key_secret,
     client_secret |-> payment_client_secret,
     stripe_customer_id |-> d.stripe_customer_id]

\* lines 151-166, with the ephemeral key revoked when the payment-intent step fails
SheetAfterPaymentIntentRevoking(d, l, resp) ==
    LET payment_intent == PaymentIntentAwaited(resp) IN
    IF ~payment_intent.ok
    THEN Suspend("await_revoke", [api |-> "EphemeralKey::delete"], l)
    ELSE LET payment_client_secret == PaymentClientSecret(payment_intent.val) IN
         IF ~payment_client_secret.ok
         THEN Suspend("await_revoke", [api |-> "EphemeralKey::delete"], l)
         ELSE Return(Ok(PaymentIntentDto(d, payment_intent.val, l.ephemeral_key_secret,
                                         payment_client_secret.val)))

\* lines 151-166: the payment intent arrives; take its client secret and
\* return the bundle
SheetAfterPaymentIntent(d, l, resp) ==
    LET payment_intent == PaymentIntentAwaited(resp) IN
    IF ~payment_intent.ok THEN Return(payment_intent)
    ELSE LET payment_client_secret == PaymentClientSecret(payment_intent.val) IN
         IF ~payment_client_secret.ok THEN Return(payment_client_secret)
         ELSE Return(Ok(PaymentIntentDto(d, payment_intent.val, l.ephemeral_key_secret,
                                         payment_client_secret.val)))

\* what the processor may answer to an ephemeral-key create
EphemeralKeyResponses ==
    { Err(e) : e \in StripeErrors } \cup { Ok([secret |-> s]) : s \in SecretOptions }

\* what the processor may answer to a payment-intent create: a failure, or an
\* intent with or without a client secret; one that has a non-empty client
\* secret names either customer
PaymentIntentResponses ==
    LET Intent(s, k) == Ok([id |-> [PaymentIntentId |-> "pi_1"], client_secret |-> s,
                            customer |-> Some([CustomerId |-> k])])
    IN  { Err(e) : e \in StripeErrors }
        \cup { Intent(s, CusPrefix \o <<"1">>) : s \in SecretOptions }
        \cup { Intent(Some("secret_1"), k) : k \in ResponseCustomerIds }

-----------------------------------------------------------------------------
(* create_customer *)

MetadataKey == <<"i", "d">>

\* whether customer record c carries metadata key -> value
HasMetadata(c, key, value) == key \in DOMAIN c.metadata /\ c.metadata[key] = value

\* lines 58-85, with the account id also written to the description
CreateCustomerWithDescription(d) ==
    [api |-> "Customer::create",
     address |-> None, balance |-> None, cash_balance |-> None, coupon |-> None,
     description |-> Some(d.id), email |-> None, invoice_prefix |-> None,
     invoice_settings |-> None,
     metadata |-> Some(MetadataKey :> d.id),
     name |-> None, next_invoice_sequence |-> None, payment_method |-> None,
     phone |-> None, preferred_locales |-> None, promotion_code |-> None,
     shipping |-> None, source |-> None, tax |-> None, tax_exempt |-> None,
     tax_id_data |-> None, test_clock |-> None]

\* lines 58-85: the CreateCustomer request; every field but metadata is None
CreateCustomer(d) ==
    [api |-> "Customer::create",
     address |-> None, balance |-> None, cash_balance |-> None, coupon |-> None,
     description |-> None, email |-> None, invoice_prefix |-> None,
     invoice_settings |-> None,
     metadata |-> Some(MetadataKey :> d.id),
     name |-> None, next_invoice_sequence |-> None, payment_method |-> None,
     phone |-> None, preferred_locales |-> None, promotion_code |-> None,
     shipping |-> None, source |-> None, tax |-> None, tax_exempt |-> None,
     tax_id_data |-> None, test_clock |-> None]

\* lines 58-86: build the request and issue the customer create
CustomerStartDeduplicating(d) ==
    LET known == { k \in 1..Len(customers) : HasMetadata(customers[k], MetadataKey, d.id) } IN
    IF known # {}
    THEN Return(Ok([id |-> CustomerIdToString(customers[CHOOSE k \in known : TRUE].id)]))
    ELSE Suspend("await_create", CreateCustomer(d), NoLocal)

CustomerStart(d) == Suspend("await_create", CreateCustomer(d), NoLocal)

\* lines 87-91: .await.map(..).map_err(StripePaymentError::from_general)
CustomerAfterCreate(resp) ==
    IF resp.ok
    THEN Return(Ok([id |-> CustomerIdToString(resp.val.id)]))
    ELSE Return(Err(FromGeneral(StripeErrorToString(resp.err))))

-----------------------------------------------------------------------------
(* get_customer *)

SearchPath == "/v1/customers/search?query="

\* lines 42-45: the literal part of the format string after "query="
SearchQueryHead ==
    <<"m", "e", "t", "a", "d", "a", "t", "a", "%", "5", "B", "%", "a", "c", "c", "o", "u", "n", "t", "_", "i", "d", "%", "2", "7", "%", "5", "D", "%", "3", "A", "%", "2", "7">>

SearchQueryTail == <<"%", "2", "7">>

\* lines 42-45: format!(.., account_id)
SearchUrl(account_id) ==
    [path |-> SearchPath, query |-> SearchQueryHead \o account_id \o SearchQueryTail]

\* lines 42-47: build the URL and issue the GET
LookupStart(account_id) ==
    Suspend("await_search", [api |-> "get", url |-> SearchUrl(account_id)], NoLocal)

\* lines 48-51: .await.map(..); a failure is returned as the processor gave it
LookupAfterSearchUnified(resp) ==
    IF resp.ok
    THEN Return(Ok([id |-> CustomerIdToString(resp.val.id)]))
    ELSE Return(Err(FromGeneral(StripeErrorToString(resp.err))))

LookupAfterSearch(resp) ==
    IF resp.ok
    THEN Return(Ok([id |-> CustomerIdToString(resp.val.id)]))
    ELSE Return(resp)

-----------------------------------------------------------------------------
(* The processor's side of the customer search: it percent-decodes the     *)
(* query and reads it as  metadata['KEY']:'VALUE'.                          *)

HexChars == {"0", "1", "2", "3", "4", "5", "6", "7", "8", "9",
             "a", "b", "c", "d", "e", "f", "A", "B", "C", "D", "E", "F"}

\* the character a percent escape %h1h2 stands for
EscapedChar(h1, h2) ==
    CASE <<h1, h2>> = <<"5", "B">> -> "["
      [] <<h1, h2>> = <<"5", "D">> -> "]"
      [] <<h1, h2>> = <<"2", "7">> -> "'"
      [] <<h1, h2>> = <<"3", "A">> -> ":"
      [] OTHER -> "<byte>"

RECURSIVE PercentDecode(_)
PercentDecode(s) ==
    IF s = <<>> THEN <<>>
    ELSE IF s[1] = "%" /\ Len(s) >= 3 /\ s[2] \in HexChars /\ s[3] \in HexChars
         THEN <<EscapedChar(s[2], s[3])>> \o PercentDecode(SubSeq(s, 4, Len(s)))
         ELSE <<s[1]>> \o PercentDecode(SubSeq(s, 2, Len(s)))

MetadataClauseHead == <<"m", "e", "t", "a", "d", "a", "t", "a", "[", "'">>

\* the clause  metadata['KEY']:'VALUE'  as a key and a value
ParseSearchQuery(q) ==
    IF ~StartsWith(q, MetadataClauseHead) THEN Err("invalid_query")
    ELSE LET rest == SubSeq(q, Len(MetadataClauseHead) + 1, Len(q))
             quotes == { k \in 1..Len(rest) : rest[k] = "'" }
         IN  IF quotes = {} THEN Err("invalid_query")
             ELSE LET k == CHOOSE x \in quotes : \A y \in quotes : x <= y IN
                  IF /\ Len(rest) >= k + 4
                     /\ SubSeq(rest, k + 1, k + 3) = <<"]", ":", "'">>
                     /\ rest[Len(rest)] = "'"
                  THEN Ok([key |-> SubSeq(rest, 1, k - 1),
                           value |-> SubSeq(rest, k + 4, Len(rest) - 1)])
                  ELSE Err("invalid_query")

\* the processor's answer to a search over directory dir: the first match
SearchAnswer(url, dir) ==
    LET q == ParseSearchQuery(PercentDecode(url.query)) IN
    IF ~q.ok THEN Err(StripeError(q.err))
    ELSE LET hits == { k \in 1..Len(dir) : HasMetadata(dir[k], q.val.key, q.val.value) } IN
         IF hits = {} THEN Err(StripeError("no_such_customer"))
         ELSE Ok(dir[CHOOSE x \in hits : \A y \in hits : x <= y])

\* the record the processor stores for a customer create, the n-th it serves
NewCustomer(request, n) ==
    [id |-> [CustomerId |-> FreshCustomerId(n)],
     metadata |-> IF request.metadata.some THEN request.metadata.val ELSE <<>>]

-----------------------------------------------------------------------------
(* The state machine *)

Init ==
    /\ pc = [i \in Inv |-> "idle"]
    /\ op = [i \in Inv |-> "none"]
    /\ dto = [i \in Inv |-> NoValue]
    /\ local = [i \in Inv |-> NoLocal]
    /\ result = [i \in Inv |-> NoValue]
    /\ calls = [i \in Inv |-> <<>>]
    /\ resps = [i \in Inv |-> <<>>]
    /\ seen = [i \in Inv |-> <<>>]
    /\ customers = <<>>
    /\ minted = {}

\* the same, with the ephemeral key secret kept in one place for all invocations
AdvanceSharedSecret(i, step, received) ==
    /\ pc' = [pc EXCEPT ![i] = step.pc]
    /\ result' = [result EXCEPT ![i] = step.result]
    /\ local' = [j \in Inv |->
                    IF j = i THEN step.local
                    ELSE IF /\ "ephemeral_key_secret" \in DOMAIN step.local
                            /\ "ephemeral_key_secret" \in DOMAIN local[j]
                         THEN step.local
                         ELSE local[j]]
    /\ calls' = [calls EXCEPT ![i] = @ \o step.send]
    /\ resps' = [resps EXCEPT ![i] = @ \o received]

\* invocation i runs a code segment to its end: it returns or suspends at
\* the next .await, having consumed the answers in received
Advance(i, step, received) ==
    /\ pc' = [pc EXCEPT ![i] = step.pc]
    /\ result' = [result EXCEPT ![i] = step.result]
    /\ local' = [local EXCEPT ![i] = step.local]
    /\ calls' = [calls EXCEPT ![i] = @ \o step.send]
    /\ resps' = [resps EXCEPT ![i] = @ \o received]

\* a caller invokes create_payment_sheet(client, d)
CallCreatePaymentSheet(i, d) ==
    /\ pc[i] = "idle"
    /\ op' = [op EXCEPT ![i] = "create_payment_sheet"]
    /\ dto' = [dto EXCEPT ![i] = d]
    /\ Advance(i, SheetStart(d), <<>>)
    /\ UNCHANGED <<seen, customers, minted>>

\* the processor answers the ephemeral-key create of invocation i; when it
\* answers with a key it has minted that key
EphemeralKeyReturns(i, resp) ==
    /\ pc[i] = "await_eph"
    /\ Advance(i, SheetAfterEphemeralKey(dto[i], local[i], resp), <<resp>>)
    /\ minted' = IF resp.ok THEN minted \cup { [by |-> i, key |-> resp.val] } ELSE minted
    /\ UNCHANGED <<op, dto, seen, customers>>

\* the processor answers the payment-intent create of invocation i
PaymentIntentReturns(i, resp) ==
    /\ pc[i] = "await_pi"
    /\ Advance(i, SheetAfterPaymentIntent(dto[i], local[i], resp), <<resp>>)
    /\ UNCHANGED <<op, dto, seen, customers, minted>>

\* a caller invokes create_customer(client, d)
CallCreateCustomer(i, d) ==
    /\ pc[i] = "idle"
    /\ op' = [op EXCEPT ![i] = "create_customer"]
    /\ dto' = [dto EXCEPT ![i] = d]
    /\ Advance(i, CustomerStart(d), <<>>)
    /\ UNCHANGED <<seen, customers, minted>>

\* the processor serves the customer create of invocation i: it stores a new
\* record under a fresh id and answers with it
CustomerCreateSucceeds(i) ==
    /\ pc[i] = "await_create"
    /\ LET c == NewCustomer(calls[i][Len(calls[i])], Len(customers) + 1) IN
           /\ customers' = Append(customers, c)
           /\ Advance(i, CustomerAfterCreate(Ok(c)), <<Ok(c)>>)
    /\ UNCHANGED <<op, dto, seen, minted>>

\* the customer create of invocation i fails at the processor
CustomerCreateFails(i, e) ==
    /\ pc[i] = "await_create"
    /\ Advance(i, CustomerAfterCreate(Err(e)), <<Err(e)>>)
    /\ UNCHANGED <<op, dto, seen, customers, minted>>

\* a caller invokes get_customer(client, account_id)
CallGetCustomer(i, account_id) ==
    /\ pc[i] = "idle"
    /\ op' = [op EXCEPT ![i] = "get_customer"]
    /\ dto' = [dto EXCEPT ![i] = [account_id |-> account_id]]
    /\ Advance(i, LookupStart(account_id), <<>>)
    /\ UNCHANGED <<seen, customers, minted>>

\* the processor serves the customer search of invocation i
CustomerSearchReturns(i) ==
    /\ pc[i] = "await_search"
    /\ LET resp == SearchAnswer(calls[i][Len(calls[i])].url, customers) IN
           Advance(i, LookupAfterSearch(resp), <<resp>>)
    /\ seen' = [seen EXCEPT ![i] = customers]
    /\ UNCHANGED <<op, dto, customers, minted>>

\* the customer search of invocation i fails in transport
CustomerSearchFails(i, e) ==
    /\ pc[i] = "await_search"
    /\ Advance(i, LookupAfterSearch(Err(e)), <<Err(e)>>)
    /\ seen' = [seen EXCEPT ![i] = customers]
    /\ UNCHANGED <<op, dto, customers, minted>>

Next ==
    \/ \E i \in Inv, d \in CreatePaymentIntentDtos : CallCreatePaymentSheet(i, d)
    \/ \E i \in Inv, resp \in EphemeralKeyResponses : EphemeralKeyReturns(i, resp)
    \/ \E i \in Inv, resp \in PaymentIntentResponses : PaymentIntentReturns(i, resp)
    \/ \E i \in Inv, d \in CreateCustomerDtos : CallCreateCustomer(i, d)
    \/ \E i \in Inv : CustomerCreateSucceeds(i)
    \/ \E i \in Inv, e \in StripeErrors : CustomerCreateFails(i, e)
    \/ \E i \in Inv, a \in AccountIds : CallGetCustomer(i, a)
    \/ \E i \in Inv : CustomerSearchReturns(i)
    \/ \E i \in Inv, e \in StripeErrors : CustomerSearchFails(i, e)

Spec == Init /\ [][Next]_vars

\* the processor answers the request create_payment_sheet invocation i has
\* outstanding
SheetCallAnswered(i) ==
    \/ \E resp \in EphemeralKeyResponses : EphemeralKeyReturns(i, resp)
    \/ \E resp \in PaymentIntentResponses : PaymentIntentReturns(i, resp)

\* every remote call create_payment_sheet issues is eventually answered
FairSpec == Spec /\ \A i \in Inv : WF_vars(SheetCallAnswered(i))

-----------------------------------------------------------------------------
(* Vocabulary of the properties *)

IsSheet(i) == op[i] = "create_payment_sheet"
IsCreateCustomer(i) == op[i] = "create_customer"
IsLookup(i) == op[i] = "get_customer"
Returned(i) == pc[i] = "done"

\* how many requests to api invocation i has issued
CallCount(i, api) == Cardinality({ k \in 1..Len(calls[i]) : calls[i][k].api = api })
EphemeralCalls(i) == CallCount(i, "EphemeralKey::create")
PaymentIntentCalls(i) == CallCount(i, "PaymentIntent::create")

\* invocation i returned the unified error with this message
FailedWith(i, msg) ==
    Returned(i) /\ result[i] = [ok |-> FALSE,
                                err |-> [kind |-> "StripePaymentError", message |-> msg]]

\* invocation i returned the unified error, whatever its message
FailedUnified(i) ==
    Returned(i) /\ ~result[i].ok /\ result[i].err.kind = "StripePaymentError"

\* invocation i returned a bundle
ReturnedBundle(i) == IsSheet(i) /\ Returned(i) /\ result[i].ok

\* the lowercase codes of the currency enumeration
RecognizedCurrencies == { <<"u", "s", "d">>, <<"e", "u", "r">>, <<"a", "e", "d">> }
CurrencyRecognized(code) == ToLowercase(code) \in RecognizedCurrencies

\* the ephemeral-key create of invocation i was answered with a secret
GotEphemeralSecret(i) ==
    /\ IsSheet(i) /\ Len(resps[i]) >= 1
    /\ resps[i][1].ok /\ resps[i][1].val.secret.some

-----------------------------------------------------------------------------
(* Properties *)

\* C1: a create_payment_sheet invocation whose currency code is not in the
\* currency enumeration after lowercasing never issues a remote call, neither
\* the ephemeral-key create nor the payment-intent create, and what it
\* returns is an error.
C1_UnknownCurrencyNoRemoteCall ==
    \A i \in Inv :
        IsSheet(i) /\ ~CurrencyRecognized(dto[i].currency)
            => /\ EphemeralCalls(i) = 0 /\ PaymentIntentCalls(i) = 0
               /\ Returned(i) => ~result[i].ok

\* C2: a create_payment_sheet invocation whose customer id is not a valid
\* processor customer id has returned the unified error and has issued no
\* remote call: no ephemeral-key create and no payment-intent create.
C2_BadCustomerIdNoRemoteCall ==
    \A i \in Inv :
        IsSheet(i) /\ ~StartsWith(dto[i].stripe_customer_id, CusPrefix)
            => /\ calls[i] = <<>>
               /\ EphemeralCalls(i) = 0 /\ PaymentIntentCalls(i) = 0
               /\ FailedUnified(i)

C2_Witness ==
    \E i \in Inv :
        /\ IsSheet(i) /\ ~StartsWith(dto[i].stripe_customer_id, CusPrefix)
        /\ Returned(i)

\* C3: when the ephemeral-key create was answered with a processor failure,
\* the invocation has returned an error and issued no payment-intent create.
C3_EphemeralFailureStopsSequence ==
    \A i \in Inv :
        IsSheet(i) /\ Len(resps[i]) >= 1 /\ ~resps[i][1].ok
            => PaymentIntentCalls(i) = 0 /\ FailedUnified(i)

C3_Witness ==
    \E i \in Inv :
        /\ IsSheet(i) /\ Len(resps[i]) >= 1 /\ ~resps[i][1].ok
        /\ CurrencyRecognized(dto[i].currency)
        /\ Returned(i)

\* C4: when the ephemeral-key create succeeded with a response that has no
\* secret, the invocation has returned the fixed missing-ephemeral-secret
\* error and issued no payment-intent create.
C4_MissingEphemeralSecret ==
    \A i \in Inv :
        IsSheet(i) /\ Len(resps[i]) >= 1 /\ resps[i][1].ok /\ ~resps[i][1].val.secret.some
            => PaymentIntentCalls(i) = 0 /\ FailedWith(i, "no ephemeral_key_secret")

C4_Witness ==
    \E i \in Inv :
        /\ IsSheet(i) /\ Len(resps[i]) >= 1
        /\ resps[i][1].ok /\ ~resps[i][1].val.secret.some
        /\ CurrencyRecognized(dto[i].currency)
        /\ Returned(i)

\* C5: when the ephemeral step gave a secret and the payment-intent create
\* succeeded with a response that has no client secret, the invocation has
\* returned the fixed missing-client-secret error and no bundle.
C5_MissingClientSecret ==
    \A i \in Inv :
        /\ GotEphemeralSecret(i) /\ Len(resps[i]) = 2
        /\ resps[i][2].ok /\ ~resps[i][2].val.client_secret.some
        => ~ReturnedBundle(i) /\ FailedWith(i, "no payment_client_secret")

C5_Witness ==
    \E i \in Inv :
        /\ GotEphemeralSecret(i) /\ Len(resps[i]) = 2
        /\ resps[i][2].ok /\ ~resps[i][2].val.client_secret.some
        /\ Returned(i)

\* C6: the customer id of a returned bundle is the customer id string of the
\* request, whatever the processor's responses name.
C6_BundleEchoesCustomerId ==
    \A i \in Inv :
        ReturnedBundle(i) => result[i].val.stripe_customer_id = dto[i].stripe_customer_id

C6_Witness ==
    \E i \in Inv :
        /\ ReturnedBundle(i)
        /\ resps[i][2].val.customer.val.CustomerId # dto[i].stripe_customer_id

\* C7: every returned bundle has its four fields non-empty.
C7_BundleFieldsNonEmpty ==
    \A i \in Inv :
        ReturnedBundle(i)
            => /\ result[i].val.id # ""
               /\ result[i].val.ephemeral_secret # ""
               /\ result[i].val.client_secret # ""
               /\ result[i].val.stripe_customer_id # <<>>

\* C8: once the ephemeral step has given a secret, the payment-intent create
\* is issued iff the lowercased currency code is in the enumeration, and it
\* carries the enumeration value of the lowercased code; so two invocations
\* whose codes differ only in letter case get the same decision and currency.
C8_CurrencyCaseInsensitive ==
    /\ \A i \in Inv :
          GotEphemeralSecret(i)
              => /\ PaymentIntentCalls(i) = 1 <=> CurrencyRecognized(dto[i].currency)
                 /\ PaymentIntentCalls(i) = 1
                       => calls[i][2].currency
                              = CurrencyFromStr(ToLowercase(dto[i].currency)).val
    /\ \A i, j \in Inv :
          /\ GotEphemeralSecret(i) /\ GotEphemeralSecret(j)
          /\ ToLowercase(dto[i].currency) = ToLowercase(dto[j].currency)
          => /\ PaymentIntentCalls(i) = PaymentIntentCalls(j)
             /\ PaymentIntentCalls(i) = 1 => calls[i][2].currency = calls[j][2].currency

C8_Witness ==
    \E i, j \in Inv :
        /\ GotEphemeralSecret(i) /\ GotEphemeralSecret(j)
        /\ dto[i].currency # dto[j].currency
        /\ ToLowercase(dto[i].currency) = ToLowercase(dto[j].currency)
        /\ PaymentIntentCalls(i) = 1 /\ PaymentIntentCalls(j) = 1

\* the directory records that carry account id a under the key "id"
RecordsFor(dir, a) == { k \in 1..Len(dir) : HasMetadata(dir[k], <<"i", "d">>, a) }

\* C9: every create_customer invocation issues exactly one remote request, a
\* customer create, and two invocations that succeeded for the same account
\* id returned distinct ids, each the id of its own directory record.
C9_CreateCustomerNotIdempotent ==
    /\ \A i \in Inv :
          IsCreateCustomer(i)
              => Len(calls[i]) = 1 /\ calls[i][1].api = "Customer::create"
    /\ \A i, j \in Inv :
          /\ i # j /\ IsCreateCustomer(i) /\ IsCreateCustomer(j)
          /\ Returned(i) /\ Returned(j) /\ result[i].ok /\ result[j].ok
          /\ dto[i].id = dto[j].id
          => /\ result[i].val.id # result[j].val.id
             /\ \E m, n \in RecordsFor(customers, dto[i].id) :
                   /\ m # n
                   /\ customers[m].id.CustomerId = result[i].val.id
                   /\ customers[n].id.CustomerId = result[j].val.id

C9_Witness ==
    \E i, j \in Inv :
        /\ i # j /\ IsCreateCustomer(i) /\ IsCreateCustomer(j)
        /\ Returned(i) /\ Returned(j) /\ result[i].ok /\ result[j].ok
        /\ dto[i].id = dto[j].id

\* C10: a get_customer invocation whose search the processor served when
\* exactly one customer carried its account id under the key create_customer
\* writes has returned that customer's id.
C10_LookupFindsCreatedCustomer ==
    \A j \in Inv :
        /\ IsLookup(j) /\ Returned(j)
        /\ resps[j][1].ok \/ resps[j][1].err \notin StripeErrors
        /\ Cardinality(RecordsFor(seen[j], dto[j].account_id)) = 1
        => \E k \in RecordsFor(seen[j], dto[j].account_id) :
               result[j] = [ok |-> TRUE, val |-> [id |-> seen[j][k].id.CustomerId]]


\* the k-th answer invocation i received is a processor failure
FailureAt(i, k) == Len(resps[i]) >= k /\ ~resps[i][k].ok

\* C11: a create_payment_sheet invocation that returned an error returned the
\* unified error kind; its message is the processor's error description when
\* a remote step failed, "no ephemeral_key_secret" when the ephemeral key came
\* without a secret, and "no payment_client_secret" when the payment intent
\* came without a client secret, whatever the request and the other answers.
C11_UnifiedErrorMessages ==
    \A i \in Inv :
        IsSheet(i) /\ Returned(i) /\ ~result[i].ok
            => /\ result[i].err.kind = "StripePaymentError"
               /\ DOMAIN result[i].err = {"kind", "message"}
               /\ FailureAt(i, 1) => result[i].err.message = resps[i][1].err.StripeError
               /\ FailureAt(i, 2) => result[i].err.message = resps[i][2].err.StripeError
               /\ (Len(resps[i]) >= 1 /\ resps[i][1].ok /\ ~resps[i][1].val.secret.some)
                     => result[i].err.message = "no ephemeral_key_secret"
               /\ (Len(resps[i]) = 2 /\ resps[i][2].ok /\ ~resps[i][2].val.client_secret.some)
                     => result[i].err.message = "no payment_client_secret"

C11_Witness ==
    \E i, j \in Inv :
        /\ IsSheet(i) /\ Returned(i) /\ FailureAt(i, 2)
        /\ IsSheet(j) /\ Returned(j) /\ Len(resps[j]) = 2
        /\ resps[j][2].ok /\ ~resps[j][2].val.client_secret.some
        /\ dto[i] # dto[j]

\* C12: a get_customer invocation issues exactly one remote request, the
\* customer search (a read), and when the search fails it returns the
\* processor's error value as it received it; a create_customer invocation
\* whose create fails returns the unified error carrying that description.
C12_LookupErrorUnchanged ==
    /\ \A i \in Inv :
          IsLookup(i)
              => /\ Len(calls[i]) = 1 /\ calls[i][1].api = "get"
                 /\ Returned(i) /\ ~resps[i][1].ok => result[i] = resps[i][1]
    /\ \A i \in Inv :
          IsCreateCustomer(i) /\ Returned(i) /\ ~resps[i][1].ok
              => result[i] = [ok |-> FALSE,
                              err |-> [kind |-> "StripePaymentError",
                                       message |-> resps[i][1].err.StripeError]]

C12_Witness ==
    \E i, j \in Inv :
        /\ IsLookup(i) /\ Returned(i) /\ ~resps[i][1].ok
        /\ resps[i][1].err \in StripeErrors
        /\ IsCreateCustomer(j) /\ Returned(j) /\ ~resps[j][1].ok


\* step k of invocation i was answered and failed: the processor failed it,
\* or its answer lacks the secret the code takes from it
StepFailed(i, k) ==
    /\ Len(resps[i]) >= k
    /\ \/ ~resps[i][k].ok
       \/ k = 1 /\ ~resps[i][1].val.secret.some
       \/ k = 2 /\ ~resps[i][2].val.client_secret.some

\* C13: a create_payment_sheet invocation issues the ephemeral-key create at
\* most once and the payment-intent create at most once; a malformed customer
\* id leaves it with no call, and once step k has failed it has returned an
\* error with exactly the k calls issued up to that step; an unrecognized
\* currency ends it with the one call issued before the currency was parsed.
C13_NoRetry ==
    \A i \in Inv :
        IsSheet(i)
            => /\ EphemeralCalls(i) <= 1 /\ PaymentIntentCalls(i) <= 1
               /\ Len(calls[i]) <= Len(resps[i]) + 1
               /\ ~StartsWith(dto[i].stripe_customer_id, CusPrefix)
                     => Len(calls[i]) = 0 /\ Returned(i)
               /\ \A k \in 1..2 :
                     StepFailed(i, k)
                         => /\ Len(calls[i]) = k /\ Len(resps[i]) = k
                            /\ Returned(i) /\ ~result[i].ok
               /\ GotEphemeralSecret(i) /\ ~CurrencyRecognized(dto[i].currency)
                     => Len(calls[i]) = 1 /\ Returned(i) /\ ~result[i].ok

C13_Witness ==
    \E i, j \in Inv :
        /\ IsSheet(i) /\ StepFailed(i, 1) /\ Returned(i)
        /\ IsSheet(j) /\ StepFailed(j, 2) /\ Returned(j)

\* the payment-intent step of invocation i failed after its ephemeral key
\* was minted with a secret
PaymentIntentStepFailed(i) ==
    /\ GotEphemeralSecret(i) /\ Len(resps[i]) = 2
    /\ ~resps[i][2].ok \/ ~resps[i][2].val.client_secret.some

\* C14: when the payment-intent step fails after the ephemeral key was
\* minted, the invocation has returned an error having issued the
\* ephemeral-key create and the payment-intent create and nothing else, and
\* the processor still holds the key it minted for it.
C14_NoCompensation ==
    \A i \in Inv :
        PaymentIntentStepFailed(i)
            => /\ Returned(i) /\ ~result[i].ok
               /\ Len(calls[i]) = 2
               /\ calls[i][1].api = "EphemeralKey::create"
               /\ calls[i][2].api = "PaymentIntent::create"
               /\ [by |-> i, key |-> resps[i][1].val] \in minted

C14_Witness ==
    \E i, j \in Inv :
        /\ PaymentIntentStepFailed(i) /\ ~resps[i][2].ok
        /\ PaymentIntentStepFailed(j) /\ resps[j][2].ok

\* C15: an invocation that returned a bundle issued exactly two requests: the
\* ephemeral-key create for the customer id of the request, then the
\* payment-intent create for the same customer id; and a payment-intent
\* create is only ever issued second, after the ephemeral-key create was
\* answered with a secret.
C15_TwoCallsInOrder ==
    \A i \in Inv :
        /\ ReturnedBundle(i)
              => /\ Len(calls[i]) = 2
                 /\ calls[i][1] = [api |-> "EphemeralKey::create",
                                   customer |-> [some |-> TRUE,
                                                 val |-> [CustomerId |-> dto[i].stripe_customer_id]],
                                   issuing_card |-> [some |-> FALSE]]
                 /\ calls[i][2].api = "PaymentIntent::create"
                 /\ calls[i][2].customer = calls[i][1].customer
        /\ IsSheet(i) /\ PaymentIntentCalls(i) >= 1
              => /\ GotEphemeralSecret(i)
                 /\ calls[i][1].api = "EphemeralKey::create"
                 /\ \A k \in 1..Len(calls[i]) :
                       calls[i][k].api = "PaymentIntent::create" => k = 2

C15_Witness == \E i \in Inv : ReturnedBundle(i) /\ Len(calls[i]) = 2

\* C16: every payment-intent create carries the amount of the request, the
\* enumeration value of its lowercased currency code, its customer id, the
\* payment-method types ["card"] and its delivery address as shipping; a
\* returned bundle carries the id and client secret of the payment-intent
\* answer and the secret of the ephemeral-key answer.
C16_PaymentIntentRequestAndBundle ==
    \A i \in Inv :
        IsSheet(i)
            => /\ \A k \in 1..Len(calls[i]) :
                     calls[i][k].api = "PaymentIntent::create"
                         => calls[i][k] =
                               [api |-> "PaymentIntent::create",
                                amount |-> dto[i].amount,
                                currency |-> CurrencyFromStr(ToLowercase(dto[i].currency)).val,
                                customer |-> [some |-> TRUE,
                                              val |-> [CustomerId |-> dto[i].stripe_customer_id]],
                                payment_method_types |-> [some |-> TRUE, val |-> <<"card">>],
                                shipping |-> dto[i].delivery_address]
               /\ ReturnedBundle(i)
                     => /\ result[i].val.id = resps[i][2].val.id.PaymentIntentId
                        /\ result[i].val.client_secret = resps[i][2].val.client_secret.val
                        /\ result[i].val.ephemeral_secret = resps[i][1].val.secret.val

C16_Witness ==
    \E i, j \in Inv :
        /\ ReturnedBundle(i) /\ dto[i].delivery_address.some
        /\ resps[i][1].val.secret.val # resps[i][2].val.client_secret.val
        /\ ReturnedBundle(j) /\ dto[j].amount # dto[i].amount

\* C17: the request of a create_customer invocation has every customer field
\* absent except metadata, whose only entry is "id" -> the account id of the
\* request; the id returned is the id in the processor's answer.
C17_CustomerCreateRequest ==
    \A i \in Inv :
        IsCreateCustomer(i)
            => /\ calls[i][1].api = "Customer::create"
               /\ \A f \in DOMAIN calls[i][1] \ {"api", "metadata"} :
                     calls[i][1][f] = [some |-> FALSE]
               /\ calls[i][1].metadata.some
               /\ DOMAIN calls[i][1].metadata.val = { <<"i", "d">> }
               /\ calls[i][1].metadata.val[<<"i", "d">>] = dto[i].id
               /\ Returned(i) /\ result[i].ok
                     => /\ result[i].val = [id |-> resps[i][1].val.id.CustomerId]
                        /\ result[i].val.id # dto[i].id

C17_Witness == \E i \in Inv : IsCreateCustomer(i) /\ Returned(i) /\ result[i].ok


\* what invocation i holds: its position, argument, locals, result and the
\* requests and answers of its own calls
LocalState(i) == <<pc[i], op[i], dto[i], local[i], result[i], calls[i], resps[i]>>

\* invocation i has a remote request outstanding
Outstanding(i) == Len(calls[i]) = Len(resps[i]) + 1

InFlight(i) == pc[i] \in {"await_eph", "await_pi", "await_create", "await_search"}

\* C18: however invocations interleave, each has one request outstanding
\* while it is suspended and none otherwise; two invocations of the same
\* function with the same argument and the same answers have issued the same
\* requests and returned the same result; and every step changes what at
\* most one invocation holds.
C18_NoInterference ==
    /\ [](\A i \in Inv :
             /\ Len(calls[i]) = Len(resps[i]) \/ Outstanding(i)
             /\ Outstanding(i) <=> InFlight(i))
    /\ [](\A i, j \in Inv :
             /\ op[i] = op[j] /\ dto[i] = dto[j] /\ resps[i] = resps[j]
             /\ pc[i] # "idle" /\ pc[j] # "idle"
             => calls[i] = calls[j] /\ result[i] = result[j] /\ pc[i] = pc[j])
    /\ [][\A i, j \in Inv :
             LocalState(i)' # LocalState(i) /\ j # i => LocalState(j)' = LocalState(j)]_vars

C18_Witness ==
    \E i, j \in Inv :
        /\ i # j
        /\ pc[i] = "await_pi" /\ pc[j] = "await_pi"
        /\ local[i] # local[j]

\* C19: under FairSpec every create_payment_sheet invocation eventually has
\* returned, for good (an invocation stays the call it is); it has then
\* issued at most two requests, all of them answered, and its result is a
\* bundle or an error that never changes afterwards.
C19_SheetReturns ==
    /\ \A i \in Inv : <>[](IsSheet(i) => Returned(i))
    /\ [](\A i \in Inv :
             IsSheet(i)
                 => /\ Len(calls[i]) <= 2
                    /\ Returned(i)
                          => /\ Len(resps[i]) = Len(calls[i])
                             /\ "ok" \in DOMAIN result[i])
    /\ [][\A i \in Inv :
             IsSheet(i) /\ Returned(i) => Returned(i)' /\ result[i]' = result[i]]_vars

C19_Witness ==
    \E i, j \in Inv :
        /\ ReturnedBundle(i) /\ Len(calls[i]) = 2
        /\ IsSheet(j) /\ Returned(j) /\ ~result[j].ok /\ Len(calls[j]) = 1

====
